---- MODULE Spec2Model ----
(***************************************************************************)
(* A model of turtle-rs (src/src/lib.rs): the Turtle state machine and its *)
(* Op Log, the Lines segment iterator, the PNG raster renderer             *)
(* (draw_line_img) and the SDL animation loop (SdlTurtle::show).           *)
(*                                                                         *)
(* f32 values are modelled bit-exactly for the finite normal range: a      *)
(* value is a record [s, m, e] standing for (-1)^s * m * 2^e with          *)
(* 2^23 <= m < 2^24, or m = 0 for zero.  Every f32 operation rounds to     *)
(* nearest, ties to even, as IEEE-754 binary32 does.  The sign of zero,    *)
(* subnormals, infinities and NaN are outside the ranges the model's       *)
(* inputs can reach and are not represented.                               *)
(***************************************************************************)
EXTENDS Integers, Sequences, FiniteSets, TLC

(***************************************************************************)
(* Bounds of the model.                                                    *)
(***************************************************************************)
MaxCmds == 4

MaxLinesCmds == 3

MaxWalk == 7

\* Rendered segments have their endpoints in (-1..MaxCoord) x (-1..MaxCoord).
MaxCoord == 3

\* The small image of the raster renderer is ImgW x ImgH.
ImgW == 3

ImgH == 3

\* The animated turtles run the first 0..MaxShowCmds commands of ShowPattern.
MaxShowCmds == 5

\* Events that can wait in the SDL event queue.
MaxQueue == 2

\* [ and ] keys pressed in one run of show().
MaxBracketKeys == 2

\* The speeds show() is entered with when the frame delay is examined.
MaxFps == 1000

\* Iterations of one draw_line_img loop that are counted; no loop that ends
\* runs as many in the images of the model.
MaxIter == 512

(***************************************************************************)
(* f32 arithmetic.                                                         *)
(***************************************************************************)
I32Max == 2147483647

I32Min == -2147483647 - 1

Pow2(n) == 2 ^ n

RECURSIVE BitLen(_)
BitLen(n) == IF n = 0 THEN 0 ELSE 1 + BitLen(n \div 2)

F32Zero == [s |-> 0, m |-> 0, e |-> 0]

\* The f32 nearest to (-1)^s * (M + frac) * 2^e, where 0 <= M < 2^31 and
\* frac is 0 when sticky is FALSE and some value in (0,1) when it is TRUE
\* (callers that pass sticky = TRUE pass an M of more than 25 bits).
RoundPack(s, M, e, sticky) ==
    IF M = 0 THEN F32Zero
    ELSE LET nb == BitLen(M) IN
         IF nb <= 24
         THEN [s |-> s, m |-> M * Pow2(24 - nb), e |-> e - (24 - nb)]
         ELSE LET k    == nb - 24
                  q    == M \div Pow2(k)
                  r    == M % Pow2(k)
                  half == Pow2(k - 1)
                  up   == \/ r > half
                          \/ r = half /\ (sticky \/ q % 2 = 1)
                  q2   == IF up THEN q + 1 ELSE q
              IN IF q2 = Pow2(24)
                 THEN [s |-> s, m |-> Pow2(23), e |-> e + k + 1]
                 ELSE [s |-> s, m |-> q2, e |-> e + k]

\* `n as f32` for an i32 n.
I2F(n) ==
    IF n = I32Min THEN [s |-> 1, m |-> Pow2(23), e |-> 8]
    ELSE RoundPack(IF n < 0 THEN 1 ELSE 0, IF n < 0 THEN -n ELSE n, 0, FALSE)

\* a + b in f32.
F32Add(a, b) ==
    IF a.m = 0 THEN b
    ELSE IF b.m = 0 THEN a
    ELSE LET big   == IF a.e >= b.e THEN a ELSE b
             small == IF a.e >= b.e THEN b ELSE a
             d     == big.e - small.e
             B     == big.m * 64
             S0    == small.m * 64
             S     == IF d >= 30 THEN 0 ELSE S0 \div Pow2(d)
             lost  == IF d >= 30 THEN TRUE ELSE S0 % Pow2(d) # 0
         IN IF big.s = small.s
            THEN RoundPack(big.s, B + S, big.e - 6, lost)
            ELSE IF B >= S
                 THEN IF lost
                      THEN RoundPack(big.s, B - S - 1, big.e - 6, TRUE)
                      ELSE RoundPack(big.s, B - S, big.e - 6, FALSE)
                 ELSE RoundPack(small.s, S - B, big.e - 6, FALSE)

\* a * b in f32: the 48-bit product of the mantissas by 12-bit limbs.
F32Mul(a, b) ==
    IF a.m = 0 \/ b.m = 0 THEN F32Zero
    ELSE LET a1  == a.m \div 4096
             a0  == a.m % 4096
             b1  == b.m \div 4096
             b0  == b.m % 4096
             mid == a1 * b0 + a0 * b1
             los == (mid % 4096) * 4096 + a0 * b0
             lo  == los % Pow2(24)
             hi  == a1 * b1 + mid \div 4096 + los \div Pow2(24)
         IN RoundPack((a.s + b.s) % 2, hi * 64 + lo \div Pow2(18),
                      a.e + b.e + 18, lo % Pow2(18) # 0)

\* `v as i32` rounding to the nearest integer instead of truncating.
F32RoundToI32(v) ==
    LET w == F32Add(v, [s |-> v.s, m |-> Pow2(23), e |-> -24])
    IN IF w.m = 0 THEN 0
       ELSE IF w.e >= 8 THEN (IF w.s = 1 THEN I32Min ELSE I32Max)
       ELSE IF w.e <= -24 THEN 0
       ELSE LET mag == IF w.e >= 0 THEN w.m * Pow2(w.e)
                       ELSE w.m \div Pow2(-w.e)
            IN IF w.s = 1 THEN -mag ELSE mag

\* `v as i32`: truncation toward zero, saturating at the i32 range.
F32ToI32(v) ==
    IF v.m = 0 THEN 0
    ELSE IF v.e >= 8 THEN (IF v.s = 1 THEN I32Min ELSE I32Max)
    ELSE IF v.e <= -24 THEN 0
    ELSE LET mag == IF v.e >= 0 THEN v.m * Pow2(v.e) ELSE v.m \div Pow2(-v.e)
         IN IF v.s = 1 THEN -mag ELSE mag

\* a / b in f32 (b nonzero): 27 quotient bits by long division, then rounded.
RECURSIVE DivBits(_, _, _, _)
DivBits(rem, d, q, n) ==
    IF n = 0 THEN [q |-> q, rem |-> rem]
    ELSE IF rem >= d THEN DivBits(2 * (rem - d), d, 2 * q + 1, n - 1)
    ELSE DivBits(2 * rem, d, 2 * q, n - 1)

F32Div(a, b) ==
    IF a.m = 0 THEN F32Zero
    ELSE LET r == DivBits(a.m, b.m, 0, 27)
         IN RoundPack((a.s + b.s) % 2, r.q, a.e - b.e - 26, r.rem # 0)

\* `v.round() as u64`: to the nearest whole number.
F32RoundToU64(v) ==
    LET w == F32Add(v, [s |-> 0, m |-> Pow2(23), e |-> -24])
    IN IF w.m = 0 \/ w.s = 1 \/ w.e <= -24 THEN 0
       ELSE IF w.e >= 0 THEN w.m * Pow2(w.e) ELSE w.m \div Pow2(-w.e)

\* `v as u64` for values below 2^31: truncation toward zero, negative
\* values saturate to 0.
F32ToU64(v) ==
    IF v.m = 0 \/ v.s = 1 \/ v.e <= -24 THEN 0
    ELSE IF v.e >= 0 THEN v.m * Pow2(v.e) ELSE v.m \div Pow2(-v.e)

\* std::f32::consts::PI / 180.0 as an f32 (0x3C8EFA35).
RADS_PER_DEG == [s |-> 0, m |-> 9370165, e |-> -29]

\* f32::to_radians
to_radians(v) == F32Mul(v, RADS_PER_DEG)

\* f32::cos and f32::sin at the radian values of the headings the model
\* reaches (whole multiples of 90 degrees, to_radians applied): the
\* correctly rounded binary32 results.  The key is the argument's <<s, m, e>>.
CosTable ==
    (<<1, 16470993, -20>> :> [s |-> 1, m |-> 8388608, e |-> -23]) @@  \* -900 deg
    (<<1, 14823894, -20>> :> [s |-> 1, m |-> 10069666, e |-> -48]) @@  \* -810 deg
    (<<1, 13176795, -20>> :> [s |-> 0, m |-> 8388608, e |-> -23]) @@  \* -720 deg
    (<<1, 11529695, -20>> :> [s |-> 1, m |-> 10205815, e |-> -45]) @@  \* -630 deg
    (<<1, 9882596, -20>> :> [s |-> 1, m |-> 8388608, e |-> -23]) @@  \* -540 deg
    (<<1, 16470993, -21>> :> [s |-> 0, m |-> 9786246, e |-> -46]) @@  \* -450 deg
    (<<1, 13176795, -21>> :> [s |-> 0, m |-> 8388608, e |-> -23]) @@  \* -360 deg
    (<<1, 9882596, -21>> :> [s |-> 0, m |-> 13426222, e |-> -50]) @@  \* -270 deg
    (<<1, 13176795, -22>> :> [s |-> 1, m |-> 8388608, e |-> -23]) @@  \* -180 deg
    (<<1, 13176795, -23>> :> [s |-> 1, m |-> 12303662, e |-> -48]) @@  \* -90 deg
    (<<0, 0, 0>> :> [s |-> 0, m |-> 8388608, e |-> -23]) @@  \* 0 deg
    (<<0, 13176795, -23>> :> [s |-> 1, m |-> 12303662, e |-> -48]) @@  \* 90 deg
    (<<0, 13176795, -22>> :> [s |-> 1, m |-> 8388608, e |-> -23]) @@  \* 180 deg
    (<<0, 9882596, -21>> :> [s |-> 0, m |-> 13426222, e |-> -50]) @@  \* 270 deg
    (<<0, 13176795, -21>> :> [s |-> 0, m |-> 8388608, e |-> -23]) @@  \* 360 deg
    (<<0, 16470993, -21>> :> [s |-> 0, m |-> 9786246, e |-> -46]) @@  \* 450 deg
    (<<0, 9882596, -20>> :> [s |-> 1, m |-> 8388608, e |-> -23]) @@  \* 540 deg
    (<<0, 11529695, -20>> :> [s |-> 1, m |-> 10205815, e |-> -45]) @@  \* 630 deg
    (<<0, 13176795, -20>> :> [s |-> 0, m |-> 8388608, e |-> -23]) @@  \* 720 deg
    (<<0, 14823894, -20>> :> [s |-> 1, m |-> 10069666, e |-> -48]) @@  \* 810 deg
    (<<0, 16470993, -20>> :> [s |-> 1, m |-> 8388608, e |-> -23])  \* 900 deg

SinTable ==
    (<<1, 16470993, -20>> :> [s |-> 1, m |-> 9786246, e |-> -45]) @@  \* -900 deg
    (<<1, 14823894, -20>> :> [s |-> 1, m |-> 8388608, e |-> -23]) @@  \* -810 deg
    (<<1, 13176795, -20>> :> [s |-> 1, m |-> 12303662, e |-> -45]) @@  \* -720 deg
    (<<1, 11529695, -20>> :> [s |-> 0, m |-> 8388608, e |-> -23]) @@  \* -630 deg
    (<<1, 9882596, -20>> :> [s |-> 0, m |-> 13426222, e |-> -49]) @@  \* -540 deg
    (<<1, 16470993, -21>> :> [s |-> 1, m |-> 8388608, e |-> -23]) @@  \* -450 deg
    (<<1, 13176795, -21>> :> [s |-> 1, m |-> 12303662, e |-> -46]) @@  \* -360 deg
    (<<1, 9882596, -21>> :> [s |-> 0, m |-> 8388608, e |-> -23]) @@  \* -270 deg
    (<<1, 13176795, -22>> :> [s |-> 0, m |-> 12303662, e |-> -47]) @@  \* -180 deg
    (<<1, 13176795, -23>> :> [s |-> 1, m |-> 8388608, e |-> -23]) @@  \* -90 deg
    (<<0, 0, 0>> :> [s |-> 0, m |-> 0, e |-> 0]) @@  \* 0 deg
    (<<0, 13176795, -23>> :> [s |-> 0, m |-> 8388608, e |-> -23]) @@  \* 90 deg
    (<<0, 13176795, -22>> :> [s |-> 1, m |-> 12303662, e |-> -47]) @@  \* 180 deg
    (<<0, 9882596, -21>> :> [s |-> 1, m |-> 8388608, e |-> -23]) @@  \* 270 deg
    (<<0, 13176795, -21>> :> [s |-> 0, m |-> 12303662, e |-> -46]) @@  \* 360 deg
    (<<0, 16470993, -21>> :> [s |-> 0, m |-> 8388608, e |-> -23]) @@  \* 450 deg
    (<<0, 9882596, -20>> :> [s |-> 1, m |-> 13426222, e |-> -49]) @@  \* 540 deg
    (<<0, 11529695, -20>> :> [s |-> 1, m |-> 8388608, e |-> -23]) @@  \* 630 deg
    (<<0, 13176795, -20>> :> [s |-> 0, m |-> 12303662, e |-> -45]) @@  \* 720 deg
    (<<0, 14823894, -20>> :> [s |-> 0, m |-> 8388608, e |-> -23]) @@  \* 810 deg
    (<<0, 16470993, -20>> :> [s |-> 0, m |-> 9786246, e |-> -45])  \* 900 deg


cos(r) == CosTable[<<r.s, r.m, r.e>>]

sin(r) == SinTable[<<r.s, r.m, r.e>>]

(***************************************************************************)
(* Turtle (lib.rs 29-107).  A turtle is a record [x, y, h, ops]; the Op    *)
(* Log ops is a sequence of TurtleOp records.                              *)
(***************************************************************************)
White == <<255, 255, 255>>

Red == <<255, 0, 0>>

Green == <<0, 255, 0>>

MoveToOp(fx, fy) == [op |-> "MoveTo", x |-> fx, y |-> fy]

LineToOp(fx, fy) == [op |-> "LineTo", x |-> fx, y |-> fy]

SetColorOp(r, g, b) == [op |-> "SetColor", r |-> r, g |-> g, b |-> b]

\* Turtle::new
new == [x |-> F32Zero, y |-> F32Zero, h |-> F32Zero, ops |-> <<>>]

\* forward with the LineTo pushed before the cursor is updated.
forwardPushFirst(t, dist) ==
    LET h_rad == to_radians(t.h)
        nx    == F32Add(t.x, F32Mul(I2F(dist), cos(h_rad)))
        ny    == F32Add(t.y, F32Mul(I2F(dist), sin(h_rad)))
    IN [t EXCEPT !.x = nx, !.y = ny, !.ops = Append(@, LineToOp(t.x, t.y))]

\* Turtle::forward
forward(t, dist) ==
    LET h_rad == to_radians(t.h)
        nx    == F32Add(t.x, F32Mul(I2F(dist), cos(h_rad)))
        ny    == F32Add(t.y, F32Mul(I2F(dist), sin(h_rad)))
    IN [t EXCEPT !.x = nx, !.y = ny, !.ops = Append(@, LineToOp(nx, ny))]

\* turn with the heading reduced modulo 360.
turnWrapped(t, degrees) ==
    [t EXCEPT !.h = I2F(F32ToI32(F32Add(@, degrees)) % 360)]

\* Turtle::turn
turn(t, degrees) == [t EXCEPT !.h = F32Add(@, degrees)]

\* Turtle::move_to
move_to(t, nx, ny) ==
    [t EXCEPT !.x = I2F(nx), !.y = I2F(ny),
              !.ops = Append(@, MoveToOp(I2F(nx), I2F(ny)))]

\* Turtle::set_color
set_color(t, r, g, b) == [t EXCEPT !.ops = Append(@, SetColorOp(r, g, b))]

\* Turtle::position
position(t) == <<t.x, t.y>>

\* Turtle::heading
heading(t) == t.h

(***************************************************************************)
(* Lines (lib.rs 89-156).  An iterator is a record [i, x, y, color]: i is  *)
(* the index in the borrowed Op Log of the next operation to read.         *)
(***************************************************************************)
\* lines starting with black instead of white.
linesBlack(t) == [i |-> 1, x |-> 0, y |-> 0, color |-> <<0, 0, 0>>]

\* Turtle::lines
lines(t) == [i |-> 1, x |-> 0, y |-> 0, color |-> White]

Line(start, end, color) == [start |-> start, end |-> end, color |-> color]

\* Lines::next with MoveTo yielding a line as LineTo does.
RECURSIVE LinesNextMoveDraws(_, _)
LinesNextMoveDraws(it, ops) ==
    IF it.i > Len(ops) THEN [it |-> it, line |-> <<>>]
    ELSE LET o == ops[it.i] IN
         CASE o.op \in {"MoveTo", "LineTo"} ->
                LET nx == F32ToI32(o.x)
                    ny == F32ToI32(o.y)
                IN [it   |-> [it EXCEPT !.i = @ + 1, !.x = nx, !.y = ny],
                    line |-> <<Line(<<it.x, it.y>>, <<nx, ny>>, it.color)>>]
           [] o.op = "SetColor" ->
                LinesNextMoveDraws(
                    [it EXCEPT !.i = @ + 1, !.color = <<o.r, o.g, o.b>>], ops)

\* Lines::next with MoveTo skipped without moving the pen.
RECURSIVE LinesNextIgnoreMove(_, _)
LinesNextIgnoreMove(it, ops) ==
    IF it.i > Len(ops) THEN [it |-> it, line |-> <<>>]
    ELSE LET o == ops[it.i] IN
         CASE o.op = "MoveTo" ->
                LinesNextIgnoreMove([it EXCEPT !.i = @ + 1], ops)
           [] o.op = "LineTo" ->
                LET nx == F32ToI32(o.x)
                    ny == F32ToI32(o.y)
                IN [it   |-> [it EXCEPT !.i = @ + 1, !.x = nx, !.y = ny],
                    line |-> <<Line(<<it.x, it.y>>, <<nx, ny>>, it.color)>>]
           [] o.op = "SetColor" ->
                LinesNextIgnoreMove(
                    [it EXCEPT !.i = @ + 1, !.color = <<o.r, o.g, o.b>>], ops)

\* Lines::next on the Op Log ops: the advanced iterator and the Option<Line>
\* it returns, as a sequence of length 0 (None) or 1 (Some).
RECURSIVE LinesNext(_, _)
LinesNext(it, ops) ==
    IF it.i > Len(ops) THEN [it |-> it, line |-> <<>>]
    ELSE LET o == ops[it.i] IN
         CASE o.op = "MoveTo" ->
                LinesNext([it EXCEPT !.i = @ + 1, !.x = F32ToI32(o.x),
                                     !.y = F32ToI32(o.y)], ops)
           [] o.op = "LineTo" ->
                LET nx == F32ToI32(o.x)
                    ny == F32ToI32(o.y)
                IN [it   |-> [it EXCEPT !.i = @ + 1, !.x = nx, !.y = ny],
                    line |-> <<Line(<<it.x, it.y>>, <<nx, ny>>, it.color)>>]
           [] o.op = "SetColor" ->
                LinesNext([it EXCEPT !.i = @ + 1, !.color = <<o.r, o.g, o.b>>],
                          ops)

\* `for line in it`: every line the iterator yields until it returns None.
RECURSIVE Collect(_, _)
Collect(it, ops) ==
    LET r == LinesNext(it, ops)
    IN IF r.line = <<>> THEN <<>> ELSE r.line \o Collect(r.it, ops)

\* The pen an iterator holds once it has returned None.
RECURSIVE Drain(_, _)
Drain(it, ops) ==
    LET r == LinesNext(it, ops)
    IN IF r.line = <<>> THEN r.it ELSE Drain(r.it, ops)

(***************************************************************************)
(* State.                                                                  *)
(*   t     the turtle                                                      *)
(*   cmds  history: the commands issued on t so far, in issue order        *)
(*   its   the Lines iterators alive on t (they borrow it), each with the  *)
(*         lines it has yielded so far                                     *)
(*   png   the state of PngTurtle::save                                    *)
(*   sdl   the state of SdlTurtle::show                                    *)
(***************************************************************************)
VARIABLES t, cmds, its, png, sdl

vars == <<t, cmds, its, png, sdl>>

Slots == {1, 2}

NoIter == [live |-> FALSE]

PngIdle == [pc |-> "idle"]

SdlIdle == [pc |-> "idle"]

\* The inputs of the commands.
Dists == {10, 100, -10}

Turns == {90, -90}

MoveTargets == {<<50, 50>>, <<-3, 16777217>>}

Colors == {Red, Green}

\* No iterator borrows the turtle: commands need it mutably.
NoBorrow == \A k \in Slots : ~its[k].live

Forward(limit) ==
    /\ Len(cmds) < limit
    /\ NoBorrow
    /\ \E d \in Dists :
         /\ t' = forward(t, d)
         /\ cmds' = Append(cmds, [c |-> "forward", dist |-> d])
    /\ UNCHANGED <<its, png, sdl>>

Turn(limit) ==
    /\ Len(cmds) < limit
    /\ NoBorrow
    /\ \E a \in Turns :
         /\ t' = turn(t, I2F(a))
         /\ cmds' = Append(cmds, [c |-> "turn", degrees |-> a])
    /\ UNCHANGED <<its, png, sdl>>

MoveTo(limit) ==
    /\ Len(cmds) < limit
    /\ NoBorrow
    /\ \E p \in MoveTargets :
         /\ t' = move_to(t, p[1], p[2])
         /\ cmds' = Append(cmds, [c |-> "move_to", nx |-> p[1], ny |-> p[2]])
    /\ UNCHANGED <<its, png, sdl>>

SetColor(limit) ==
    /\ Len(cmds) < limit
    /\ NoBorrow
    /\ \E rgb \in Colors :
         /\ t' = set_color(t, rgb[1], rgb[2], rgb[3])
         /\ cmds' = Append(cmds, [c |-> "set_color", rgb |-> rgb])
    /\ UNCHANGED <<its, png, sdl>>

Init ==
    /\ t = new
    /\ cmds = <<>>
    /\ its = [k \in Slots |-> NoIter]
    /\ png = PngIdle
    /\ sdl = SdlIdle

Next ==
    \/ Forward(MaxCmds)
    \/ Turn(MaxCmds)
    \/ MoveTo(MaxCmds)
    \/ SetColor(MaxCmds)

Spec == Init /\ [][Next]_vars

(***************************************************************************)
(* Readings of the command history used by the properties.                 *)
(***************************************************************************)
SetMax(S) == CHOOSE m \in S : \A n \in S : n <= m

IsCmd(cs, i, name) == cs[i].c = name

ForwardAt(cs) == {i \in 1..Len(cs) : IsCmd(cs, i, "forward")}

\* The index in cs of its k-th forward call.
KthForward(cs, k) ==
    CHOOSE i \in ForwardAt(cs) :
        Cardinality({j \in ForwardAt(cs) : j <= i}) = k

\* The colour set by the last set_color before command i, white if none.
ColorBefore(cs, i) ==
    LET S == {j \in 1..(i - 1) : IsCmd(cs, j, "set_color")}
    IN IF S = {} THEN White ELSE cs[SetMax(S)].rgb

RECURSIVE TurnSum(_)
TurnSum(cs) ==
    IF cs = <<>> THEN 0
    ELSE (IF cs[1].c = "turn" THEN cs[1].degrees ELSE 0) + TurnSum(Tail(cs))

\* Every line a fresh lines() iterator on t yields.
Segments == Collect(lines(t), t.ops)

(***************************************************************************)
(* Properties of the Turtle and of Lines, under Spec.                      *)
(***************************************************************************)
HasCmd(name) == \E i \in 1..Len(cmds) : IsCmd(cmds, i, name)

\* C1: the number of segments a full iteration of lines() yields equals the
\* number of forward calls issued; move_to, turn and set_color add none.
C1_SegmentCount == Len(Segments) = Cardinality(ForwardAt(cmds))

C1_Witness ==
    /\ HasCmd("forward") /\ HasCmd("move_to")
    /\ HasCmd("turn") /\ HasCmd("set_color")
    /\ Len(Segments) = 1

ColorScenario ==
    << [c |-> "set_color", rgb |-> Red], [c |-> "forward", dist |-> 10],
       [c |-> "set_color", rgb |-> Green], [c |-> "forward", dist |-> 10] >>

\* C3: every segment carries the colour of the last set_color issued before
\* the forward call that produced it, white if there is none; without any
\* set_color every segment is white; red, forward, green, forward yields two
\* segments, the first red and the second green.
C3_SegmentColor ==
    /\ \A k \in 1..Len(Segments) :
         k <= Cardinality(ForwardAt(cmds)) =>
           Segments[k].color = ColorBefore(cmds, KthForward(cmds, k))
    /\ ~HasCmd("set_color") =>
         \A k \in 1..Len(Segments) : Segments[k].color = White
    /\ cmds = ColorScenario =>
         /\ Len(Segments) = 2
         /\ Segments[1].color = Red
         /\ Segments[2].color = Green

C3_Witness == cmds = ColorScenario /\ Len(Segments) = 2

\* The pen operations of the Op Log.
PenOps(ops) == {i \in 1..Len(ops) : ops[i].op \in {"MoveTo", "LineTo"}}

LineOps(ops) == {i \in 1..Len(ops) : ops[i].op = "LineTo"}

KthLineTo(ops, k) ==
    CHOOSE i \in LineOps(ops) :
        Cardinality({j \in LineOps(ops) : j <= i}) = k

\* The truncated target of the last MoveTo or LineTo before Op Log index i,
\* (0,0) if there is none.
PenBefore(ops, i) ==
    LET S == {j \in PenOps(ops) : j < i}
    IN IF S = {} THEN <<0, 0>>
       ELSE <<F32ToI32(ops[SetMax(S)].x), F32ToI32(ops[SetMax(S)].y)>>

\* What the history says the k-th segment starts at: the target of the last
\* move_to issued after the previous forward, else the previous segment's
\* end, else (0,0).
StartByHistory(k) ==
    LET i == KthForward(cmds, k)
        S == {j \in 1..(i - 1) : cmds[j].c \in {"forward", "move_to"}}
    IN IF S = {} THEN <<0, 0>>
       ELSE LET c == cmds[SetMax(S)]
            IN IF c.c = "move_to"
               THEN <<F32ToI32(I2F(c.nx)), F32ToI32(I2F(c.ny))>>
               ELSE Segments[k - 1].end

MoveScenario ==
    << [c |-> "move_to", nx |-> 50, ny |-> 50],
       [c |-> "forward", dist |-> 10] >>

\* C4: each segment starts at the truncated target of the last MoveTo or
\* LineTo before it in the Op Log, (0,0) if there is none: at the previous
\* segment's end unless a move_to came between, and then at the move_to
\* target; move_to(50,50); forward(10) yields one segment (50,50)-(60,50).
C4_SegmentStart ==
    /\ Len(Segments) = Cardinality(LineOps(t.ops))
    /\ Len(Segments) = Cardinality(ForwardAt(cmds))
    /\ \A k \in 1..Len(Segments) :
         /\ Segments[k].start = PenBefore(t.ops, KthLineTo(t.ops, k))
         /\ Segments[k].start = StartByHistory(k)
    /\ cmds = MoveScenario =>
         Segments = <<Line(<<50, 50>>, <<60, 50>>, White)>>

C4_Witness ==
    /\ Len(cmds) = 4
    /\ cmds[1].c = "forward" /\ cmds[2].c = "move_to"
    /\ cmds[3].c = "forward" /\ cmds[4].c = "forward"
    /\ Segments[2].start # Segments[1].end
    /\ Segments[3].start = Segments[2].end

\* C5: the pen of a replay of the Op Log from (0,0) ends at the truncation
\* toward zero of the live position().
C5_ReplayPen ==
    LET pen == Drain(lines(t), t.ops)
        p   == position(t)
    IN <<pen.x, pen.y>> = <<F32ToI32(p[1]), F32ToI32(p[2])>>

\* A forward has left the live x a non-integer.
C5_Witness ==
    /\ HasCmd("forward")
    /\ position(t)[1] # I2F(F32ToI32(position(t)[1]))
    /\ Drain(lines(t), t.ops).x # 0

\* C6: heading() is the sum of the arguments of all turn calls, never
\* reduced modulo 360; forward, move_to and set_color leave the heading
\* unchanged and turn leaves position and Op Log unchanged.
C6_Heading ==
    /\ [](heading(t) = I2F(TurnSum(cmds)))
    /\ [][ /\ cmds' # cmds /\ cmds'[Len(cmds')].c # "turn"
              => heading(t') = heading(t)
           /\ cmds' # cmds /\ cmds'[Len(cmds')].c = "turn"
              => position(t') = position(t) /\ t'.ops = t.ops ]_vars

C6_Witness == heading(t) = I2F(360) /\ TurnSum(cmds) = 360

(***************************************************************************)
(* Lines iterators alive on the turtle, under SpecLines.  An iterator      *)
(* borrows the turtle, so commands wait until every iterator is dropped.   *)
(***************************************************************************)
\* lines() handing out the position of the iterator in the other slot.
NewLinesShared(k) ==
    /\ ~its[k].live
    /\ its' = [its EXCEPT ![k] =
                 [live |-> TRUE,
                  it   |-> IF its[3 - k].live THEN its[3 - k].it ELSE lines(t),
                  out  |-> <<>>, done |-> FALSE]]
    /\ UNCHANGED <<t, cmds, png, sdl>>

\* let it = t.lines()
NewLines(k) ==
    /\ ~its[k].live
    /\ its' = [its EXCEPT ![k] =
                 [live |-> TRUE, it |-> lines(t), out |-> <<>>, done |-> FALSE]]
    /\ UNCHANGED <<t, cmds, png, sdl>>

\* it.next(), until it has returned None
IterNext(k) ==
    /\ its[k].live
    /\ ~its[k].done
    /\ LET r == LinesNext(its[k].it, t.ops)
       IN its' = [its EXCEPT ![k].it = r.it,
                             ![k].out = @ \o r.line,
                             ![k].done = (r.line = <<>>)]
    /\ UNCHANGED <<t, cmds, png, sdl>>

\* the iterator goes out of scope
DropIter(k) ==
    /\ its[k].live
    /\ its' = [its EXCEPT ![k] = NoIter]
    /\ UNCHANGED <<t, cmds, png, sdl>>

NextLines ==
    \/ Forward(MaxLinesCmds)
    \/ Turn(MaxLinesCmds)
    \/ MoveTo(MaxLinesCmds)
    \/ SetColor(MaxLinesCmds)
    \/ \E k \in Slots : NewLines(k)
    \/ \E k \in Slots : IterNext(k)
    \/ \E k \in Slots : DropIter(k)

SpecLines == Init /\ [][NextLines]_vars

IsPrefix(a, b) == Len(a) <= Len(b) /\ \A n \in 1..Len(a) : a[n] = b[n]

\* C2: two iterators obtained from lines() on the same turtle yield the same
\* segments at every index, however far either was advanced, and the same
\* sequence once both are exhausted; creating or advancing an iterator
\* leaves the turtle's (x, y, h) and Op Log unchanged.
C2_Restartable ==
    /\ [](\A j, k \in Slots :
            its[j].live /\ its[k].live =>
              /\ IsPrefix(its[j].out, its[k].out)
                   \/ IsPrefix(its[k].out, its[j].out)
              /\ its[j].done /\ its[k].done => its[j].out = its[k].out
              /\ its[j].done => IsPrefix(its[k].out, its[j].out))
    /\ [][its' # its => t' = t]_vars

C2_Witness ==
    /\ its[1].live /\ its[2].live
    /\ its[1].done /\ Len(its[1].out) = 2
    /\ ~its[2].done /\ Len(its[2].out) = 1
    /\ its[1].out[1] # its[1].out[2]

(***************************************************************************)
(* Walks: programs of forward and turn only, under SpecWalk.               *)
(***************************************************************************)
NextWalk ==
    \/ Forward(MaxWalk)
    \/ Turn(MaxWalk)

SpecWalk == Init /\ [][NextWalk]_vars

SquareCmds ==
    << [c |-> "forward", dist |-> 100], [c |-> "turn", degrees |-> 90],
       [c |-> "forward", dist |-> 100], [c |-> "turn", degrees |-> 90],
       [c |-> "forward", dist |-> 100], [c |-> "turn", degrees |-> 90],
       [c |-> "forward", dist |-> 100] >>

Ends(s) == [k \in 1..Len(s) |-> <<s[k].start, s[k].end>>]

\* C7: the square forward(100); turn(90) ... forward(100) ends with heading
\* 360 and the position at (0,0), and lines() yields the four segments
\* (0,0)-(100,0), (100,0)-(100,100), (100,100)-(0,100), (0,100)-(0,0).
C7_Square ==
    cmds = SquareCmds =>
      /\ heading(t) = I2F(360)
      /\ <<F32ToI32(position(t)[1]), F32ToI32(position(t)[2])>> = <<0, 0>>
      /\ Ends(Segments) = << <<<<0, 0>>, <<100, 0>>>>,
                             <<<<100, 0>>, <<100, 100>>>>,
                             <<<<100, 100>>, <<0, 100>>>>,
                             <<<<0, 100>>, <<0, 0>>>> >>

\* C7 as amended: three turns of 90 leave the heading at 270; the position
\* is (-6.44e-6, -7.63e-6), which truncates to (0,0); 100 + 100 * cos(90 degrees) is 99.99999 in f32, which
\* the iterator truncates to 99, so the four segments are (0,0)-(100,0),
\* (100,0)-(99,100), (99,100)-(0,99), (0,99)-(0,0).
C7_SquareAsBuilt ==
    cmds = SquareCmds =>
      /\ heading(t) = I2F(270)
      /\ position(t) = <<[s |-> 1, m |-> 14154907, e |-> -41],
                         [s |-> 1, m |-> 8388608, e |-> -40]>>
      /\ <<F32ToI32(position(t)[1]), F32ToI32(position(t)[2])>> = <<0, 0>>
      /\ Ends(Segments) = << <<<<0, 0>>, <<100, 0>>>>,
                             <<<<100, 0>>, <<99, 100>>>>,
                             <<<<99, 100>>, <<0, 99>>>>,
                             <<<<0, 99>>, <<0, 0>>>> >>

C7_Witness == cmds = SquareCmds /\ Len(Segments) = 4

(***************************************************************************)
(* PngTurtle::save and draw_line_img (lib.rs 195-247), under SpecPng.      *)
(* An image is a record [w, h, bg, px]: px maps the pixels put_pixel has   *)
(* written to their colour, every other pixel holds the fill colour bg.    *)
(* png is [pc, build, img, it, line, x, y, err, ovf, n]: it is the         *)
(* iterator of save's for loop, line (a sequence of length 0 or 1) the     *)
(* argument of the running draw_line_img and x, y, err its loop variables. *)
(* i32 arithmetic that leaves the 32-bit range panics in a build with      *)
(* overflow checks (build = "debug", pc becomes "panic") and wraps in a    *)
(* build without them (build = "release"); ovf records that it happened.   *)
(* n counts the iterations the running loop has begun.                     *)
(***************************************************************************)
Black == <<0, 0, 0>>

DefaultSize == <<500, 500>>

\* RgbImage::from_pixel
from_pixel(w, h, bg) == [w |-> w, h |-> h, bg |-> bg, px |-> <<>>]

\* RgbImage::put_pixel
put_pixel(img, x, y, c) ==
    [img EXCEPT !.px = [q \in DOMAIN @ \cup {<<x, y>>} |->
                          IF q = <<x, y>> THEN c ELSE @[q]]]

\* RgbImage::get_pixel
get_pixel(img, x, y) ==
    IF <<x, y>> \in DOMAIN img.px THEN img.px[<<x, y>>] ELSE img.bg

\* the closure inbounds of draw_line_img
inbounds(img, x, y) == x >= 0 /\ y >= 0 /\ x < img.w /\ y < img.h

Abs(n) == IF n < 0 THEN -n ELSE n

\* i32 +, wrapped to 32 bits, and whether it leaves the i32 range.
wrapping_add(a, b) ==
    IF b > 0 /\ a > I32Max - b THEN (a - I32Max - 1) + (b - I32Max - 1)
    ELSE IF b < 0 /\ a < I32Min - b THEN (a + I32Max + 1) + (b + I32Max + 1)
    ELSE a + b

add_overflows(a, b) ==
    (b > 0 /\ a > I32Max - b) \/ (b < 0 /\ a < I32Min - b)

\* i32 -
wrapping_sub(a, b) ==
    IF b = I32Min THEN wrapping_add(wrapping_add(a, I32Max), 1)
    ELSE wrapping_add(a, -b)

sub_overflows(a, b) == IF b = I32Min THEN a >= 0 ELSE add_overflows(a, -b)

\* i32::abs and unary -: both overflow on i32::MIN alone and then yield it.
wrapping_abs(a) == IF a < 0 /\ a # I32Min THEN -a ELSE a

wrapping_neg(a) == IF a = I32Min THEN a ELSE -a

neg_overflows(a) == a = I32Min

\* dx computed without i32::abs.
LineDxSigned(l) == wrapping_sub(l.end[1], l.start[1])

LineDx(l) == wrapping_abs(wrapping_sub(l.end[1], l.start[1]))

LineDy(l) ==
    wrapping_neg(wrapping_abs(wrapping_sub(l.end[2], l.start[2])))

LineSx(l) == IF l.start[1] < l.end[1] THEN 1 ELSE -1

LineSy(l) == IF l.start[2] < l.end[2] THEN 1 ELSE -1

\* Some operation of lib.rs 215-219 leaves the i32 range.
EnterOverflows(l) ==
    LET ddx == wrapping_sub(l.end[1], l.start[1])
        ddy == wrapping_sub(l.end[2], l.start[2])
    IN \/ sub_overflows(l.end[1], l.start[1])
       \/ sub_overflows(l.end[2], l.start[2])
       \/ neg_overflows(ddx)
       \/ neg_overflows(ddy)
       \/ neg_overflows(wrapping_abs(ddy))
       \/ add_overflows(LineDx(l), LineDy(l))

\* draw_line_img up to its loop
DrawEnter(p, l) ==
    IF EnterOverflows(l) /\ p.build = "debug"
    THEN [p EXCEPT !.pc = "panic", !.line = <<l>>, !.ovf = TRUE, !.n = 0]
    ELSE [p EXCEPT !.pc = "draw", !.line = <<l>>, !.x = l.start[1],
                   !.y = l.start[2],
                   !.err = wrapping_add(LineDx(l), LineDy(l)),
                   !.ovf = @ \/ EnterOverflows(l), !.n = 0]

\* draw_line_img returns
DrawReturn(p, img) ==
    [p EXCEPT !.pc = "for", !.img = img, !.line = <<>>, !.x = 0, !.y = 0,
              !.err = 0]

\* lib.rs 237-245 for the loop variables of p, the pixel already written:
\* the steps of x, y and err.
DrawAdvance(p, img2) ==
    LET l    == p.line[1]
        e2   == wrapping_add(p.err, p.err)
        mx   == e2 >= LineDy(l)
        err1 == IF mx THEN wrapping_add(p.err, LineDy(l)) ELSE p.err
        my   == e2 <= LineDx(l)
        err2 == IF my THEN wrapping_add(err1, LineDx(l)) ELSE err1
        o    == \/ add_overflows(p.err, p.err)
                \/ mx /\ add_overflows(p.err, LineDy(l))
                \/ my /\ add_overflows(err1, LineDx(l))
    IN IF o /\ p.build = "debug"
       THEN [p EXCEPT !.pc = "panic", !.img = img2, !.ovf = TRUE]
       ELSE [p EXCEPT !.img = img2,
                      !.x = IF mx THEN @ + LineSx(l) ELSE @,
                      !.y = IF my THEN @ + LineSy(l) ELSE @,
                      !.err = err2, !.ovf = @ \/ o]

\* One iteration of the loop with the end test ahead of put_pixel.
DrawStepEndFirst(p) ==
    LET l == p.line[1]
    IN IF ~inbounds(p.img, p.x, p.y) THEN DrawReturn(p, p.img)
       ELSE IF p.x = l.end[1] /\ p.y = l.end[2] THEN DrawReturn(p, p.img)
       ELSE DrawAdvance(p, put_pixel(p.img, p.x, p.y, l.color))

\* One iteration of the loop with an out-of-bounds pixel skipped, not the
\* end of the scan.
DrawStepSkip(p) ==
    LET l == p.line[1]
        img2 == IF inbounds(p.img, p.x, p.y)
                THEN put_pixel(p.img, p.x, p.y, l.color) ELSE p.img
    IN IF p.x = l.end[1] /\ p.y = l.end[2] THEN DrawReturn(p, img2)
       ELSE DrawAdvance(p, img2)

\* One iteration of the loop of draw_line_img.
DrawStep(p) ==
    LET l == p.line[1]
    IN IF ~inbounds(p.img, p.x, p.y) THEN DrawReturn(p, p.img)
       ELSE LET img2 == put_pixel(p.img, p.x, p.y, l.color)
            IN IF p.x = l.end[1] /\ p.y = l.end[2] THEN DrawReturn(p, img2)
               ELSE DrawAdvance(p, img2)

\* The loop run to its end from the state p.
RECURSIVE RunDraw(_)
RunDraw(p) == IF p.pc # "draw" THEN p ELSE RunDraw(DrawStep(p))

DrawLoop ==
    /\ png.pc = "draw"
    /\ png' = [DrawStep(png) EXCEPT
                 !.n = IF @ < MaxIter THEN @ + 1 ELSE @]
    /\ UNCHANGED <<t, cmds, its, sdl>>

\* save's `for line in self.turtle.lines()`: the next line is drawn, or the
\* loop ends and the image is written out.
SaveNext ==
    /\ png.pc = "for"
    /\ LET r == LinesNext(png.it, t.ops)
       IN IF r.line = <<>>
          THEN png' = [png EXCEPT !.pc = "saved", !.it = r.it]
          ELSE png' = DrawEnter([png EXCEPT !.it = r.it], r.line[1])
    /\ UNCHANGED <<t, cmds, its, sdl>>

\* PngTurtle::save up to its for loop, for a builder of the given size.
SaveEnter(tt, size, bg, build) ==
    [pc |-> "for", build |-> build,
     img |-> from_pixel(size[1], size[2], bg), it |-> lines(tt),
     line |-> <<>>, x |-> 0, y |-> 0, err |-> 0, ovf |-> FALSE, n |-> 0]

\* A program of commands run on the turtle tt.
ApplyCmd(tt, c) ==
    CASE c.c = "forward" -> forward(tt, c.dist)
      [] c.c = "turn" -> turn(tt, I2F(c.degrees))
      [] c.c = "move_to" -> move_to(tt, c.nx, c.ny)
      [] c.c = "set_color" -> set_color(tt, c.rgb[1], c.rgb[2], c.rgb[3])

RECURSIVE RunCmds(_, _)
RunCmds(tt, cs) ==
    IF cs = <<>> THEN tt ELSE RunCmds(ApplyCmd(tt, Head(cs)), Tail(cs))

\* The inputs of the renderer: turtles whose Op Log replays to one segment
\* p-q of colour c, or to the two segments p-q, q-p, the second one red.
\* Every such segment is one some walk yields; the renderers read nothing of
\* a turtle but its Op Log.
Box == (-1..MaxCoord) \X (-1..MaxCoord)

Corners == {<<0, 0>>, <<MaxCoord, 1>>}

ColorOps(c) == IF c = White THEN <<>> ELSE <<SetColorOp(c[1], c[2], c[3])>>

LogTurtle(p, q, c) ==
    [x |-> I2F(q[1]), y |-> I2F(q[2]), h |-> F32Zero,
     ops |-> <<MoveToOp(I2F(p[1]), I2F(p[2]))>> \o ColorOps(c)
             \o <<LineToOp(I2F(q[1]), I2F(q[2]))>>]

LogTurtle2(p, q) ==
    [x |-> I2F(p[1]), y |-> I2F(p[2]), h |-> F32Zero,
     ops |-> <<MoveToOp(I2F(p[1]), I2F(p[2])), LineToOp(I2F(q[1]), I2F(q[2])),
               SetColorOp(255, 0, 0), LineToOp(I2F(p[1]), I2F(p[2]))>>]

ExampleTurtle == LogTurtle(<<10, 10>>, <<20, 10>>, White)

\* Programs whose one segment is far longer than any image is wide:
\* (0,0)-(1000000000,0), (0,0)-(1500000000,0), (0,0)-(i32::MIN,-187) and
\* (-2000000000,0)-(147483648,0).
WidePrograms ==
    { << [c |-> "forward", dist |-> 1000000000] >>,
      << [c |-> "forward", dist |-> 1500000000] >>,
      << [c |-> "turn", degrees |-> 90], [c |-> "turn", degrees |-> 90],
         [c |-> "forward", dist |-> I32Max] >>,
      << [c |-> "move_to", nx |-> -2000000000, ny |-> 0],
         [c |-> "forward", dist |-> I32Max] >> }

WideTurtles == {RunCmds(new, cs) : cs \in WidePrograms}

PngTurtles ==
    {LogTurtle(p, q, c) : p \in Box, q \in Box, c \in {White, Green}}
      \cup {LogTurtle2(p, q) : p \in Corners, q \in Corners}
      \cup {ExampleTurtle}
      \cup WideTurtles

PngSizes == {DefaultSize, <<ImgW, ImgH>>, <<0, ImgH>>, <<ImgW, 0>>}

\* With and without overflow checks (rustc -C overflow-checks).
Builds == {"debug", "release"}

InitPng ==
    /\ t \in PngTurtles
    /\ cmds = <<>>
    /\ its = [k \in Slots |-> NoIter]
    /\ \E size \in PngSizes, build \in Builds :
         png = SaveEnter(t, size, Black, build)
    /\ sdl = SdlIdle

NextPng ==
    \/ SaveNext
    \/ DrawLoop

SpecPng == InitPng /\ [][NextPng]_vars

Horizontal(l) == l.start[2] = l.end[2]

Inside(img, l) ==
    /\ inbounds(img, l.start[1], l.start[2])
    /\ inbounds(img, l.end[1], l.end[2])

\* The pixels of the row of a horizontal line between its end columns.
RowPixels(l) ==
    LET lo == IF l.start[1] <= l.end[1] THEN l.start[1] ELSE l.end[1]
        hi == IF l.start[1] <= l.end[1] THEN l.end[1] ELSE l.start[1]
    IN {<<c, l.start[2]>> : c \in lo..hi}

\* The pixels of the image near the segments the model draws.
NearPixels(img) ==
    {q \in (0..(MaxCoord + 1)) \X (0..(MaxCoord + 1)) :
        inbounds(img, q[1], q[2])}

\* C8: a horizontal segment with both endpoints inside the image is rendered
\* as exactly the pixels of its row between the two end columns inclusive,
\* |x1 - x0| + 1 of them, in the segment's colour, every other pixel keeping
\* the background; (10,10)-(20,10) in 500 x 500 gives columns 10..20 of
\* row 10.
C8_HorizontalRow ==
    /\ (png.pc = "saved" /\ Len(Segments) = 1) =>
         LET l == Segments[1]
         IN (Horizontal(l) /\ Inside(png.img, l)) =>
              /\ DOMAIN png.img.px = RowPixels(l)
              /\ Cardinality(DOMAIN png.img.px) = LineDx(l) + 1
              /\ \A q \in RowPixels(l) :
                   get_pixel(png.img, q[1], q[2]) = l.color
              /\ \A q \in NearPixels(png.img) \ RowPixels(l) :
                   get_pixel(png.img, q[1], q[2]) = Black
    /\ (png.pc = "saved" /\ t = ExampleTurtle
          /\ <<png.img.w, png.img.h>> = DefaultSize) =>
         /\ DOMAIN png.img.px = {<<c, 10>> : c \in 10..20}
         /\ \A q \in DOMAIN png.img.px : png.img.px[q] = White

C8_Witness ==
    /\ png.pc = "saved"
    /\ t = ExampleTurtle
    /\ <<png.img.w, png.img.h>> = DefaultSize
    /\ Cardinality(DOMAIN png.img.px) = 11

(***************************************************************************)
(* SdlTurtle::show (lib.rs 311-386), under SpecShow and SpecShowQuiet.     *)
(* sdl is [pc, interactive, paused, step, line_iter, delay, window, queue, *)
(* brackets]: pc is "loop" at the head of the loop body, "poll" in the     *)
(* event loop and "returned" after return; window holds the lines drawn    *)
(* on the renderer since it was last cleared; queue is SDL's event queue;  *)
(* brackets counts the [ and ] keys pressed so far.  Two more fields keep  *)
(* history: key tells what the Space, S or R key handled last did          *)
(* ("stopped": Space while running, "resumed": Space while paused,         *)
(* "stepped": S while paused, "stepdone": the tick after it has run,       *)
(* "reset": R, "none": S while running or no such key yet); late counts    *)
(* the lines drawn while a Quit or Escape event was waiting in the queue;  *)
(* speed is the builder's field self.speed.                                *)
(***************************************************************************)
Events ==
    {"Quit", "Escape", "Space", "R", "S", "LeftBracket", "RightBracket",
     "OtherKey", "OtherEvent"}

\* The head of the loop body (lib.rs 334-344) with the iterator re-created
\* when it is exhausted.
ShowTickRewind(s, tt) ==
    IF ~s.paused \/ s.step
    THEN LET r == LinesNext(s.line_iter, tt.ops)
         IN IF r.line # <<>>
            THEN [s EXCEPT !.pc = "poll", !.step = FALSE, !.line_iter = r.it,
                           !.window = Append(@, r.line[1])]
            ELSE [s EXCEPT !.pc = "poll", !.step = FALSE,
                           !.line_iter = lines(tt), !.paused = TRUE]
    ELSE [s EXCEPT !.pc = "poll"]

\* The head of the loop body with exhaustion leaving paused as it is.
ShowTickNoPause(s, tt) ==
    IF ~s.paused \/ s.step
    THEN LET r == LinesNext(s.line_iter, tt.ops)
         IN IF r.line # <<>>
            THEN [s EXCEPT !.pc = "poll", !.step = FALSE, !.line_iter = r.it,
                           !.window = Append(@, r.line[1])]
            ELSE [s EXCEPT !.pc = "poll", !.step = FALSE, !.line_iter = r.it]
    ELSE [s EXCEPT !.pc = "poll"]

\* The head of the loop body with the step flag left set.
ShowTickKeepStep(s, tt) ==
    IF ~s.paused \/ s.step
    THEN LET r == LinesNext(s.line_iter, tt.ops)
         IN IF r.line # <<>>
            THEN [s EXCEPT !.pc = "poll", !.line_iter = r.it,
                           !.window = Append(@, r.line[1])]
            ELSE [s EXCEPT !.pc = "poll", !.line_iter = r.it,
                           !.paused = TRUE]
    ELSE [s EXCEPT !.pc = "poll"]

\* The head of the loop body (lib.rs 334-344): draw the next line unless
\* paused, pause when there is none.
ShowTick(s, tt) ==
    IF ~s.paused \/ s.step
    THEN LET r == LinesNext(s.line_iter, tt.ops)
         IN IF r.line # <<>>
            THEN [s EXCEPT !.pc = "poll", !.step = FALSE, !.line_iter = r.it,
                           !.window = Append(@, r.line[1])]
            ELSE [s EXCEPT !.pc = "poll", !.step = FALSE, !.line_iter = r.it,
                           !.paused = TRUE]
    ELSE [s EXCEPT !.pc = "poll"]

\* The event match with an R handler that keeps the iterator.
ShowEventKeepIter(s, tt, e) ==
    LET s1 == [s EXCEPT !.queue = Tail(@)]
    IN CASE e \in {"Quit", "Escape"} ->
              [s1 EXCEPT !.pc = "returned", !.queue = <<>>]
         [] e = "OtherEvent" -> s1
         [] OTHER ->
              IF ~s.interactive THEN s1
              ELSE CASE e = "Space" -> [s1 EXCEPT !.paused = ~@]
                     [] e = "R" ->
                          [s1 EXCEPT !.paused = FALSE, !.window = <<>>]
                     [] e = "S" -> [s1 EXCEPT !.step = TRUE]
                     [] e = "LeftBracket" -> [s1 EXCEPT !.delay = @ + 1]
                     [] e = "RightBracket" ->
                          [s1 EXCEPT !.delay = IF @ > 0 THEN @ - 1 ELSE @]
                     [] OTHER -> s1

\* The event match with Escape matched as an ordinary key.
ShowEventEscKey(s, tt, e) ==
    LET s1 == [s EXCEPT !.queue = Tail(@)]
    IN CASE e \in {"Quit"} ->
              [s1 EXCEPT !.pc = "returned", !.queue = <<>>]
         [] e = "OtherEvent" -> s1
         [] OTHER ->
              IF ~s.interactive THEN s1
              ELSE CASE e = "Space" -> [s1 EXCEPT !.paused = ~@]
                     [] e = "R" ->
                          [s1 EXCEPT !.paused = FALSE, !.line_iter = lines(tt),
                                     !.window = <<>>]
                     [] e = "S" -> [s1 EXCEPT !.step = TRUE]
                     [] e = "LeftBracket" -> [s1 EXCEPT !.delay = @ + 1]
                     [] e = "RightBracket" ->
                          [s1 EXCEPT !.delay = IF @ > 0 THEN @ - 1 ELSE @]
                     [] OTHER -> s1

\* The event match without the test of self.interactive.
ShowEventAlways(s, tt, e) ==
    LET s1 == [s EXCEPT !.queue = Tail(@)]
    IN CASE e \in {"Quit", "Escape"} ->
              [s1 EXCEPT !.pc = "returned", !.queue = <<>>]
         [] e = "OtherEvent" -> s1
         [] OTHER ->
              IF FALSE THEN s1
              ELSE CASE e = "Space" -> [s1 EXCEPT !.paused = ~@]
                     [] e = "R" ->
                          [s1 EXCEPT !.paused = FALSE, !.line_iter = lines(tt),
                                     !.window = <<>>]
                     [] e = "S" -> [s1 EXCEPT !.step = TRUE]
                     [] e = "LeftBracket" -> [s1 EXCEPT !.delay = @ + 1]
                     [] e = "RightBracket" ->
                          [s1 EXCEPT !.delay = IF @ > 0 THEN @ - 1 ELSE @]
                     [] OTHER -> s1

\* The body of `for event in event_pump.poll_iter()` (lib.rs 347-381) for
\* the event e, taken off the queue.
ShowEvent(s, tt, e) ==
    LET s1 == [s EXCEPT !.queue = Tail(@)]
    IN CASE e \in {"Quit", "Escape"} ->
              [s1 EXCEPT !.pc = "returned", !.queue = <<>>]
         [] e = "OtherEvent" -> s1
         [] OTHER ->
              IF ~s.interactive THEN s1
              ELSE CASE e = "Space" -> [s1 EXCEPT !.paused = ~@]
                     [] e = "R" ->
                          [s1 EXCEPT !.paused = FALSE, !.line_iter = lines(tt),
                                     !.window = <<>>]
                     [] e = "S" -> [s1 EXCEPT !.step = TRUE]
                     [] e = "LeftBracket" -> [s1 EXCEPT !.delay = @ + 1]
                     [] e = "RightBracket" ->
                          [s1 EXCEPT !.delay = IF @ > 0 THEN @ - 1 ELSE @]
                     [] OTHER -> s1

\* show() up to its loop (lib.rs 312-331).
ShowEnter(tt, interactive, speed) ==
    [pc |-> "loop", interactive |-> interactive, speed |-> speed,
     paused |-> FALSE,
     step |-> FALSE, line_iter |-> lines(tt),
     delay |-> F32ToU64(F32Div(I2F(1000), speed)),
     window |-> <<>>, queue |-> <<>>, brackets |-> 0, key |-> "none",
     late |-> 0]

\* A Quit or Escape event waits in the queue q.
EscPending(q) == \E i \in DOMAIN q : q[i] \in {"Quit", "Escape"}

\* The history field key after the loop in state s has handled the event e.
NoteKey(s, e) ==
    IF ~s.interactive THEN s.key
    ELSE CASE e = "Space" -> IF s.paused THEN "resumed" ELSE "stopped"
           [] e = "S" -> IF s.paused THEN "stepped" ELSE "none"
           [] e = "R" -> "reset"
           [] OTHER -> s.key

Tick ==
    /\ sdl.pc = "loop"
    /\ LET s2 == ShowTick(sdl, t)
       IN sdl' = [s2 EXCEPT
                    !.key = IF @ = "stepped" THEN "stepdone" ELSE @,
                    !.late = IF /\ EscPending(sdl.queue)
                                /\ Len(s2.window) > Len(sdl.window)
                             THEN @ + 1 ELSE @]
    /\ UNCHANGED <<t, cmds, its, png>>

PollEvent ==
    /\ sdl.pc = "poll"
    /\ sdl.queue # <<>>
    /\ sdl' = [ShowEvent(sdl, t, Head(sdl.queue)) EXCEPT
                 !.key = NoteKey(sdl, Head(sdl.queue))]
    /\ UNCHANGED <<t, cmds, its, png>>

\* poll_iter() finds the queue empty; the thread sleeps for delay ms.
PollDone ==
    /\ sdl.pc = "poll"
    /\ sdl.queue = <<>>
    /\ sdl' = [sdl EXCEPT !.pc = "loop"]
    /\ UNCHANGED <<t, cmds, its, png>>

\* The user presses a key or closes the window: SDL queues the event.
KeyPress ==
    /\ sdl.pc \in {"loop", "poll"}
    /\ Len(sdl.queue) < MaxQueue
    /\ \E e \in Events :
         IF e \in {"LeftBracket", "RightBracket"}
         THEN /\ sdl.brackets < MaxBracketKeys
              /\ sdl' = [sdl EXCEPT !.queue = Append(@, e),
                                    !.brackets = @ + 1]
         ELSE sdl' = [sdl EXCEPT !.queue = Append(@, e)]
    /\ UNCHANGED <<t, cmds, its, png>>

\* The animated turtles: the prefixes of one program.
ShowPattern ==
    << [c |-> "forward", dist |-> 10], [c |-> "set_color", rgb |-> Red],
       [c |-> "turn", degrees |-> 90], [c |-> "forward", dist |-> 100],
       [c |-> "set_color", rgb |-> Green], [c |-> "forward", dist |-> -10],
       [c |-> "move_to", nx |-> 50, ny |-> 50] >>

Speeds == {60, 1000}

InitShow ==
    /\ \E n \in 0..MaxShowCmds :
         /\ cmds = SubSeq(ShowPattern, 1, n)
         /\ t = RunCmds(new, cmds)
    /\ its = [k \in Slots |-> NoIter]
    /\ png = PngIdle
    /\ \E inter \in BOOLEAN, fps \in Speeds :
         sdl = ShowEnter(t, inter, I2F(fps))

NextShow ==
    \/ Tick
    \/ PollEvent
    \/ PollDone
    \/ KeyPress

SpecShow == InitShow /\ [][NextShow]_vars

\* No key or close event arrives; the one thread of show() keeps running.
NextShowQuiet ==
    \/ Tick
    \/ PollDone

SpecShowQuiet == InitShow /\ [][NextShowQuiet]_vars /\ WF_vars(NextShowQuiet)

\* The lines the animation's iterator has yet to yield.
Remaining == Collect(sdl.line_iter, t.ops)

\* C9: with no key or close event, each tick draws exactly one segment, the
\* next one in the order lines() yields them, each once, and once the last
\* one is drawn the animation eventually becomes paused.
C9_OnePerTick ==
    /\ [][ /\ sdl.pc = "loop" /\ Len(sdl.window) < Len(Segments) =>
                sdl'.window = Append(sdl.window,
                                     Segments[Len(sdl.window) + 1])
           /\ sdl.pc = "loop" /\ Len(sdl.window) >= Len(Segments) =>
                sdl'.window = sdl.window
           /\ sdl.pc # "loop" => sdl'.window = sdl.window ]_vars
    /\ <>(sdl.window = Segments)
    /\ (sdl.window = Segments) ~> sdl.paused

C9_Witness ==
    /\ sdl.pc = "poll"
    /\ sdl.paused
    /\ Len(Segments) = 2
    /\ sdl.window = Segments
    /\ sdl.queue = <<>>

EventHandled == sdl.pc = "poll" /\ Len(sdl'.queue) < Len(sdl.queue)

\* C10: once the iterator is exhausted no segment is drawn and it stays
\* exhausted whatever Space, S, [ or ] keys arrive, until an R key resets it;
\* the loop goes on, and only Esc or close make show() return.
C10_ExhaustedStays ==
    [][ (sdl.pc # "returned" /\ Remaining = <<>>) =>
          /\ Len(sdl'.window) <= Len(sdl.window)
          /\ ~(EventHandled /\ Head(sdl.queue) = "R") =>
               /\ sdl'.window = sdl.window
               /\ Collect(sdl'.line_iter, t.ops) = <<>>
          /\ sdl'.pc = "returned" =>
               EventHandled /\ Head(sdl.queue) \in {"Quit", "Escape"}
          /\ sdl.pc = "loop" => sdl'.pc = "poll" \/ sdl'.pc = "loop" ]_vars

\* Exhausted and paused, the last segment drawn, and a Space key unpaused it.
C10_Witness ==
    /\ sdl.pc = "loop"
    /\ Remaining = <<>>
    /\ Len(sdl.window) = 2
    /\ ~sdl.paused
    /\ sdl.interactive
    /\ sdl.line_iter.i > Len(t.ops)

\* A step of the loop from its head to its event loop: one tick.
TickStep == sdl.pc = "loop" /\ sdl'.pc = "poll"

\* C11: in interactive mode a Space key handled while the animation runs
\* stops the drawing from the next tick on until a later Space, S or R key
\* is handled; a Space key handled while it is paused makes every tick draw
\* the next segment again, as long as one remains.
C11_SpaceToggles ==
    [][ TickStep =>
          /\ sdl.key = "stopped" => sdl'.window = sdl.window
          /\ (sdl.key = "resumed" /\ Remaining # <<>>) =>
               sdl'.window = Append(sdl.window, Remaining[1]) ]_vars

\* C12: in interactive mode an S key handled while the animation is paused
\* and a segment remains makes the next tick draw exactly that segment, the
\* next one of the Op Log, and leaves the animation paused; the ticks after
\* it draw nothing until another key is handled, and nothing is drawn
\* between ticks.
C12_StepOnce ==
    [][ /\ (TickStep /\ sdl.key = "stepped" /\ Remaining # <<>>) =>
             /\ sdl'.window = Append(sdl.window, Remaining[1])
             /\ sdl'.paused
        /\ (TickStep /\ sdl.key = "stepdone") =>
             /\ sdl'.window = sdl.window
             /\ sdl'.paused
        /\ ~TickStep => sdl'.window \in {sdl.window, <<>>} ]_vars

\* Paused again after a step that drew the first segment, more remaining.
C12_Witness ==
    /\ sdl.pc = "loop"
    /\ sdl.key = "stepdone"
    /\ sdl.paused
    /\ Len(sdl.window) = 1
    /\ Remaining # <<>>

\* The animation of the longest program at the default speed, with the
\* one thread of show() always running on; keys arrive as they please.
InitShowFair ==
    /\ cmds = SubSeq(ShowPattern, 1, MaxShowCmds)
    /\ t = RunCmds(new, cmds)
    /\ its = [k \in Slots |-> NoIter]
    /\ png = PngIdle
    /\ \E inter \in BOOLEAN : sdl = ShowEnter(t, inter, I2F(60))

SpecShowFair ==
    InitShowFair /\ [][NextShow]_vars /\ WF_vars(Tick \/ PollEvent \/ PollDone)

\* C13: in interactive mode an R key, handled at any point, installs a fresh
\* iterator, un-pauses and clears the window; from then on the ticks draw
\* the segments of the Op Log from the first one on, in order, as a new
\* lines() iterator yields them, and when no further key interferes the
\* whole sequence ends up drawn.
C13_Reset ==
    /\ [][ (EventHandled /\ Head(sdl.queue) = "R" /\ sdl.interactive) =>
             /\ sdl'.line_iter = lines(t)
             /\ ~sdl'.paused
             /\ sdl'.window = <<>> ]_vars
    /\ [][ (TickStep /\ sdl.key = "reset"
              /\ Len(sdl.window) < Len(Segments)) =>
             sdl'.window = Append(sdl.window,
                                  Segments[Len(sdl.window) + 1]) ]_vars
    /\ <>[](sdl.key = "reset" /\ sdl.queue = <<>> /\ sdl.pc # "returned")
         => <>[](sdl.window = Segments /\ sdl.paused)

\* Reset after everything had been drawn, and everything drawn again.
C13_Witness ==
    /\ sdl.key = "reset"
    /\ sdl.paused
    /\ sdl.window = Segments
    /\ Len(Segments) >= 2
    /\ sdl.pc = "loop"

\* C14: once a Quit or Escape event is in the queue, show() returns, and at
\* most one segment is drawn between the arrival of the event and the
\* return, whatever paused and step are and whatever other events wait.
C14_EscReturns ==
    /\ [](sdl.late <= 1)
    /\ [][ (EventHandled /\ Head(sdl.queue) \in {"Quit", "Escape"}) =>
             sdl'.pc = "returned" ]_vars
    /\ EscPending(sdl.queue) ~> (sdl.pc = "returned")

\* Returned after one late segment, drawn by a step, with an S key handled
\* ahead of the Escape.
C14_Witness ==
    /\ sdl.pc = "returned"
    /\ sdl.late = 1
    /\ sdl.key = "stepped"

\* C15: when show() is not interactive, handling a Space, S, R, [ or ] key
\* leaves paused, step, delay, the iterator and the window as they are and
\* the loop goes on; Quit and Escape still return.
C15_NonInteractive ==
    [][ (EventHandled /\ ~sdl.interactive) =>
          /\ Head(sdl.queue) \in
                {"Space", "S", "R", "LeftBracket", "RightBracket"} =>
               /\ sdl'.paused = sdl.paused
               /\ sdl'.step = sdl.step
               /\ sdl'.delay = sdl.delay
               /\ sdl'.line_iter = sdl.line_iter
               /\ sdl'.window = sdl.window
               /\ sdl'.pc = "poll"
          /\ Head(sdl.queue) \in {"Quit", "Escape"} =>
               sdl'.pc = "returned" ]_vars

\* Not interactive, two bracket keys handled, a segment still to draw.
C15_Witness ==
    /\ ~sdl.interactive
    /\ sdl.brackets = 2
    /\ sdl.queue = <<>>
    /\ sdl.pc = "poll"
    /\ ~sdl.paused
    /\ Len(sdl.window) = 1

(***************************************************************************)
(* The frame delay, under SpecDelay: show() is entered with every whole    *)
(* speed from 1 to MaxFps and runs with no key pressed.                    *)
(***************************************************************************)
InitDelay ==
    /\ cmds = SubSeq(ShowPattern, 1, 1)
    /\ t = RunCmds(new, cmds)
    /\ its = [k \in Slots |-> NoIter]
    /\ png = PngIdle
    /\ \E inter \in BOOLEAN, fps \in 1..MaxFps :
         sdl = ShowEnter(t, inter, I2F(fps))

SpecDelay == InitDelay /\ [][NextShowQuiet]_vars

\* The whole number of frames per second show() was configured with.
Fps == F32ToI32(sdl.speed)

\* a / b rounded to the nearest whole number, for positive a and b.
RoundDiv(a, b) == (2 * a + b) \div (2 * b)

\* C16 as stated: the initial frame delay is round(1000 / fps) ms, 17 ms at
\* the default speed 60.
C16_DelayRounded ==
    /\ sdl.delay = RoundDiv(1000, Fps)
    /\ Fps = 60 => sdl.delay = 17

\* C16 as built: the initial frame delay is 1000 / fps truncated to a whole
\* number of ms, 16 ms at the default speed 60.
C16_DelayTruncated ==
    /\ sdl.delay = 1000 \div Fps
    /\ Fps = 60 => sdl.delay = 16

C16_Witness ==
    /\ Fps = 60
    /\ sdl.delay = 16
    /\ sdl.pc = "poll"
    /\ Len(sdl.window) = 1

(***************************************************************************)
(* More properties of draw_line_img, under SpecPng.                        *)
(***************************************************************************)
\* draw_line_img(&mut img, l) run as one call: the image it leaves.
draw_line_img(img, l, build) ==
    RunDraw(DrawEnter([SaveEnter(new, <<img.w, img.h>>, img.bg, build)
                         EXCEPT !.img = img], l)).img

\* The segment l with its endpoints swapped.
Swap(l) == Line(l.end, l.start, l.color)

\* The pixels draw_line_img writes for Swap(l) on a blank image of the size
\* of the one being saved.
SwapPixels(l) ==
    DOMAIN draw_line_img(from_pixel(png.img.w, png.img.h, png.img.bg),
                         Swap(l), png.build).px

\* The pixels of S reflected through the midpoint of l.
Reflect(S, l) ==
    {<<l.start[1] + l.end[1] - q[1], l.start[2] + l.end[2] - q[2]>> : q \in S}

Max(a, b) == IF a >= b THEN a ELSE b

Straight(l) ==
    \/ l.start[1] = l.end[1]
    \/ l.start[2] = l.end[2]
    \/ Abs(l.end[1] - l.start[1]) = Abs(l.end[2] - l.start[2])

\* save() has drawn the one segment of the turtle, both ends inside the image.
DrewInside ==
    /\ png.pc = "saved"
    /\ Len(Segments) = 1
    /\ Inside(png.img, Segments[1])

\* C17 as stated: for endpoints P and Q inside the image, draw_line_img
\* writes the same set of pixels for P->Q as for Q->P.
C17_SwapSame ==
    DrewInside => DOMAIN png.img.px = SwapPixels(Segments[1])

\* C17 as built: for endpoints P and Q inside the image the pixels written
\* for Q->P are those written for P->Q reflected through the midpoint of
\* the segment; each set has max(|dx|, |dy|) + 1 pixels and holds P and Q,
\* and the two sets are equal when the segment is horizontal, vertical or
\* diagonal.
C17_SwapReflects ==
    DrewInside =>
      LET l == Segments[1]
      IN /\ SwapPixels(l) = Reflect(DOMAIN png.img.px, l)
         /\ Cardinality(DOMAIN png.img.px) =
              Max(Abs(l.end[1] - l.start[1]), Abs(l.end[2] - l.start[2])) + 1
         /\ {l.start, l.end} \subseteq DOMAIN png.img.px
         /\ Straight(l) => SwapPixels(l) = DOMAIN png.img.px

\* (0,0)->(2,1) passes (1,1), (2,1)->(0,0) passes (1,0).
C17_Witness ==
    /\ DrewInside
    /\ Segments[1].start = <<0, 0>>
    /\ Segments[1].end = <<2, 1>>
    /\ DOMAIN png.img.px = {<<0, 0>>, <<1, 1>>, <<2, 1>>}
    /\ SwapPixels(Segments[1]) = {<<0, 0>>, <<1, 0>>, <<2, 1>>}

\* C18: a segment whose start pixel lies outside the image gets no pixel
\* written, whatever the image size and wherever its end lies; and an
\* iteration that finds its pixel outside the image writes nothing and ends
\* the call, so that no pixel follows the first one out of bounds.
C18_StartOutside ==
    /\ []((png.pc # "idle" /\ Len(Segments) = 1
            /\ ~inbounds(png.img, Segments[1].start[1], Segments[1].start[2]))
           => DOMAIN png.img.px = {})
    /\ [][ (png.pc = "draw" /\ ~inbounds(png.img, png.x, png.y)) =>
             /\ png'.pc = "for"
             /\ png'.img = png.img ]_vars
    /\ [][ png.pc = "draw" =>
             DOMAIN png'.img.px \subseteq
               DOMAIN png.img.px \cup {<<png.x, png.y>>} ]_vars

\* (-1,1)-(2,1) saved on the small image: nothing written.
C18_Witness ==
    /\ png.pc = "saved"
    /\ Len(Segments) = 1
    /\ Segments[1].start = <<-1, 1>>
    /\ Segments[1].end = <<2, 1>>
    /\ <<png.img.w, png.img.h>> = <<ImgW, ImgH>>
    /\ DOMAIN png.img.px = {}

\* save() of the turtles with far-away endpoints, its one thread always
\* running on.
InitPngWide ==
    /\ t \in WideTurtles
    /\ cmds = <<>>
    /\ its = [k \in Slots |-> NoIter]
    /\ \E size \in PngSizes, build \in Builds :
         png = SaveEnter(t, size, Black, build)
    /\ sdl = SdlIdle

SpecPngWide == InitPngWide /\ [][NextPng]_vars /\ WF_vars(NextPng)

\* |b - a| >= n, for n >= 0, computed inside the i32 range.
Apart(a, b, n) ==
    \/ b >= a /\ a <= I32Max - n /\ b >= a + n
    \/ b < a /\ a >= I32Min + n /\ b <= a - n

\* C19: for all endpoints and image sizes the loop of draw_line_img ends, by
\* one of its two breaks (at (x1, y1) or at the first pixel out of bounds),
\* within max(|x1 - x0|, |y1 - y0|) + 1 iterations, and every pixel it
\* writes is inside the image.
C19_LoopBound ==
    /\ [](png.pc # "panic")
    /\ [](png.pc = "draw" =>
            LET l == png.line[1]
            IN \/ Apart(l.start[1], l.end[1], png.n)
               \/ Apart(l.start[2], l.end[2], png.n))
    /\ [](png.pc # "idle" =>
            \A q \in DOMAIN png.img.px : inbounds(png.img, q[1], q[2]))
    /\ [][ (png.pc = "draw" /\ png'.pc = "for") =>
             \/ ~inbounds(png.img, png.x, png.y)
             \/ <<png.x, png.y>> = png.line[1].end ]_vars
    /\ (png.pc = "draw") ~> (png.pc = "for")

\* C20: whatever the endpoints of a segment, no i32 operation of
\* draw_line_img leaves the i32 range.
C20_NoOverflow == png.pc # "idle" => ~png.ovf

====
